---- MODULE Spec2Model ----
(***************************************************************************)
(* Titanic survival pipeline: the Cleaner (src/src/01_data_clean.py) and   *)
(* the Trainer/Evaluator (src/src/data_analysis.py).                       *)
(*                                                                         *)
(* Numbers that can be fractional or missing (Age, Fare, Survived, the     *)
(* recoded Sex, the imputation statistics) are exact rationals             *)
(* [n |-> numerator, d |-> denominator]; d = 0 is the missing value NaN.   *)
(***************************************************************************)
EXTENDS Integers, Sequences, FiniteSets

VARIABLES
    pc,                 \* position of the Cleaner's main()
    training_data,      \* contents of the raw train file
    testing_data,       \* contents of the raw test file
    gender_submission,  \* contents of the label file: identifier -> Survived
    titanic_train,      \* main()'s train dataframe
    titanic_test,       \* main()'s test dataframe
    values,             \* fillNAN's dictionary of fill values
    cleaned_train,      \* contents of the cleaned train file ("absent" before export)
    cleaned_test,       \* contents of the cleaned test file
    pred_df,            \* get_accuracies: the predicted dataset df it is given
    set_name,           \* get_accuracies: the name of the set
    accuracy_row,       \* get_accuracies: what the call came to
    data,               \* split_data: the table it is given
    split,              \* split_data: what the call came to (X and y)
    features,           \* feature_rank: the list of feature names
    importances,        \* feature_rank: tree.feature_importances_
    importance_indices, \* feature_rank: the reversed argsort
    feature_rank_df,    \* feature_rank: the rows appended so far
    rank_pc,            \* feature_rank: position
    cv_scores,          \* cross_validate: the mean 10-fold accuracy of each depth
    fitted,             \* cross_validate: the depths evaluated so far, in order
    accuracies,         \* cross_validate: the list accuracies
    best_depth,         \* cross_validate: the depth returned (0: not yet)
    script,             \* main(): which script runs ("clean" or "analysis")
    ip,                 \* main(): index of the next step
    cols_train,         \* main(): the columns of the train input file
    cols_test,          \* main(): the columns of the test input file
    cols_labels,        \* main(): the columns of the label file
    strict,             \* main(): the libraries reject a missing label or feature name
    outputs,            \* main(): the output files written so far
    status,             \* main(): "running", "aborted" or "finished"
    cause               \* main(): why the run aborted

cleanVars == <<pc, training_data, testing_data, gender_submission, titanic_train,
               titanic_test, values, cleaned_train, cleaned_test>>
accVars == <<pred_df, set_name, accuracy_row>>
splitVars == <<data, split>>
rankVars == <<features, importances, importance_indices, feature_rank_df, rank_pc>>
cvVars == <<cv_scores, fitted, accuracies, best_depth>>
mainVars == <<script, ip, cols_train, cols_test, cols_labels, strict, outputs, status,
              cause>>

vars == <<cleanVars, accVars, splitVars, rankVars, cvVars, mainVars>>

----------------------------------------------------------------------------
(* Bounds of the model *)
MaxTrain == 3
MaxTest == 2
MaxId == 3
MaxRows == 4
MaxCols == 3
MaxSplitRows == 2
MaxFeatures == 4
MaxImp == 2
MaxScore == 2

----------------------------------------------------------------------------
(* Numbers *)
NaN == [n |-> 0, d |-> 0]
Num(v) == [n |-> v, d |-> 1]
IsNaN(x) == x.d = 0

RECURSIVE GCD(_, _)
GCD(a, b) == IF b = 0 THEN a ELSE GCD(b, a % b)

Abs(a) == IF a < 0 THEN -a ELSE a

\* the rational a/b in lowest terms (b > 0)
Rat(a, b) ==
    LET g == GCD(Abs(a), b)
    IN  [n |-> a \div g, d |-> b \div g]

RECURSIVE SumN(_)
SumN(s) == IF s = <<>> THEN 0 ELSE Head(s).n + SumN(Tail(s))

\* the non-missing cells of a column of integers, in row order
NotMissing(c) == ~IsNaN(c)
DropNA(col) == SelectSeq(col, NotMissing)

RECURSIVE Insert(_, _)
Insert(x, s) ==
    IF s = <<>> THEN <<x>>
    ELSE IF x.n <= Head(s).n THEN <<x>> \o s
    ELSE <<Head(s)>> \o Insert(x, Tail(s))

RECURSIVE Sorted(_)
Sorted(s) == IF s = <<>> THEN <<>> ELSE Insert(Head(s), Sorted(Tail(s)))

\* Series.mean(): NaN is skipped; the mean of no value is NaN
Mean(col) ==
    LET v == DropNA(col)
    IN  IF v = <<>> THEN NaN ELSE Rat(SumN(v), Len(v))

\* Series.median(): NaN is skipped; the middle value, or the midpoint of the two
\* middle values; the median of no value is NaN
Median(col) ==
    LET v == Sorted(DropNA(col))
        k == Len(v)
    IN  IF k = 0 THEN NaN
        ELSE IF k % 2 = 1 THEN Rat(v[(k + 1) \div 2].n, 1)
        ELSE Rat(v[k \div 2].n + v[k \div 2 + 1].n, 2)

AgeColumn(df) == [i \in DOMAIN df |-> df[i].Age]
FareColumn(df) == [i \in DOMAIN df |-> df[i].Fare]

----------------------------------------------------------------------------
(* Cleaner: the functions of 01_data_clean.py *)

calcNAN(df) == [Age |-> Mean(AgeColumn(df)), Fare |-> Median(FareColumn(df))]

\* DataFrame.fillna(value = {Age: .., Fare: ..}): only the columns the dictionary
\* names are filled, each missing cell with the column's value
fillna(df, v) ==
    [i \in DOMAIN df |->
        [df[i] EXCEPT !.Age = IF IsNaN(@) THEN v.Age ELSE @,
                      !.Fare = IF IsNaN(@) THEN v.Fare ELSE @]]

\* fillNAN(df): the statistics of the first table of the list fill every table
fillNAN_own(dfs) == [i \in DOMAIN dfs |-> fillna(dfs[i], calcNAN(dfs[i]))]

fillNAN(dfs) ==
    LET v == calcNAN(dfs[1])
    IN  [i \in DOMAIN dfs |-> fillna(dfs[i], v)]

\* Series.map({"male": 1, "female": 0}): a value the dictionary lacks becomes NaN
SexMap_flipped(s) ==
    IF s = "male" THEN Num(0) ELSE IF s = "female" THEN Num(1) ELSE NaN

SexMap(s) ==
    IF s = "male" THEN Num(1) ELSE IF s = "female" THEN Num(0) ELSE NaN

\* DataFrame.join(labels): a left join on the index (the passenger identifier)
JoinLabel_byRow(row, i, labels) ==
    IF i \in DOMAIN labels THEN Num(labels[i]) ELSE NaN

JoinLabel(row, i, labels) ==
    IF row.id \in DOMAIN labels THEN Num(labels[row.id]) ELSE NaN

\* process_sex(df): every table's Sex column is replaced by its mapped values
process_sex(dfs) ==
    [i \in DOMAIN dfs |-> [r \in DOMAIN dfs[i] |-> [dfs[i][r] EXCEPT !.Sex = SexMap(@)]]]

\* .loc[:, [...]]: the listed columns are kept (the index, id, stays)
ProjectTrain(df) ==
    [i \in DOMAIN df |->
        [id |-> df[i].id, Pclass |-> df[i].Pclass, Sex |-> df[i].Sex, Age |-> df[i].Age,
         SibSp |-> df[i].SibSp, Parch |-> df[i].Parch, Fare |-> df[i].Fare,
         Survived |-> df[i].Survived]]

ProjectTest(df) ==
    [i \in DOMAIN df |->
        [id |-> df[i].id, Pclass |-> df[i].Pclass, Sex |-> df[i].Sex, Age |-> df[i].Age,
         SibSp |-> df[i].SibSp, Parch |-> df[i].Parch, Fare |-> df[i].Fare]]

\* titanic_test.join(gender_submission)
Join(df, labels) ==
    [i \in DOMAIN df |->
        [id |-> df[i].id, Pclass |-> df[i].Pclass, Sex |-> df[i].Sex, Age |-> df[i].Age,
         SibSp |-> df[i].SibSp, Parch |-> df[i].Parch, Fare |-> df[i].Fare,
         Survived |-> JoinLabel(df[i], i, labels)]]

----------------------------------------------------------------------------
(* The parts of the program a run does not use stay as they are *)

IdleClean ==
    /\ pc = "idle"
    /\ training_data = <<>>
    /\ testing_data = <<>>
    /\ gender_submission = <<>>
    /\ titanic_train = <<>>
    /\ titanic_test = <<>>
    /\ values = [Age |-> NaN, Fare |-> NaN]
    /\ cleaned_train = [exists |-> FALSE, rows |-> <<>>]
    /\ cleaned_test = [exists |-> FALSE, rows |-> <<>>]

IdleAcc ==
    /\ pred_df = <<>>
    /\ set_name = "train"
    /\ accuracy_row = [called |-> FALSE]

IdleSplit ==
    /\ data = [columns |-> <<>>, rows |-> <<>>]
    /\ split = [called |-> FALSE]

IdleRank ==
    /\ features = <<>>
    /\ importances = <<>>
    /\ importance_indices = <<>>
    /\ feature_rank_df = <<>>
    /\ rank_pc = "idle"

IdleCV ==
    /\ cv_scores = <<>>
    /\ fitted = <<>>
    /\ accuracies = <<>>
    /\ best_depth = 0

IdleMain ==
    /\ script = "none"
    /\ ip = 0
    /\ cols_train = <<>>
    /\ cols_test = <<>>
    /\ cols_labels = <<>>
    /\ strict = FALSE
    /\ outputs = {}
    /\ status = "idle"
    /\ cause = "none"

CleanOnly == UNCHANGED <<accVars, splitVars, rankVars, cvVars, mainVars>>
AccOnly == UNCHANGED <<cleanVars, splitVars, rankVars, cvVars, mainVars>>
SplitOnly == UNCHANGED <<cleanVars, accVars, rankVars, cvVars, mainVars>>
RankOnly == UNCHANGED <<cleanVars, accVars, splitVars, cvVars, mainVars>>
CVOnly == UNCHANGED <<cleanVars, accVars, splitVars, rankVars, mainVars>>
MainOnly == UNCHANGED <<cleanVars, accVars, splitVars, rankVars, cvVars>>

----------------------------------------------------------------------------
(* Cleaner: the inputs *)

SeqsUpTo(S, k) == UNION {[1..j -> S] : j \in 0..k}

AgeCells == {NaN, Num(22), Num(24)}
FareCells == {NaN, Num(7), Num(8)}
SexCells == {"male", "female", "other"}

RawTrainRow(i, sex, age, fare) ==
    [id |-> i, Name |-> "name", Pclass |-> 3, Sex |-> sex, Age |-> age, SibSp |-> 0,
     Parch |-> 0, Fare |-> fare, Survived |-> Num(i % 2)]

RawTestRow(i, sex, age, fare) ==
    [id |-> i, Name |-> "name", Pclass |-> 3, Sex |-> sex, Age |-> age, SibSp |-> 0,
     Parch |-> 0, Fare |-> fare]

\* label files: a Survived of 0 or 1 for some of the identifiers
LabelTables == UNION {[D -> {0, 1}] : D \in SUBSET (1..MaxId)}
AllLabelled == [i \in 1..MaxId |-> i % 2]

\* identifier columns of a test file: distinct identifiers in any order
IdColumns ==
    {s \in SeqsUpTo(1..MaxId, MaxTest) : \A i, j \in DOMAIN s : i # j => s[i] # s[j]}

\* an output file: not there, or holding a table
Absent == [exists |-> FALSE, rows |-> <<>>]
File(df) == [exists |-> TRUE, rows |-> df]

CleanStart ==
    /\ pc = "start"
    /\ titanic_train = <<>>
    /\ titanic_test = <<>>
    /\ values = [Age |-> NaN, Fare |-> NaN]
    /\ cleaned_train = Absent
    /\ cleaned_test = Absent

\* files whose Age column varies
InitAge ==
    /\ \E a \in SeqsUpTo(AgeCells, MaxTrain) :
          training_data = [i \in DOMAIN a |-> RawTrainRow(i, "male", a[i], Num(7))]
    /\ \E a \in SeqsUpTo(AgeCells, MaxTest) :
          testing_data = [i \in DOMAIN a |-> RawTestRow(i, "female", a[i], Num(8))]
    /\ gender_submission = AllLabelled
    /\ CleanStart

\* files whose Fare column varies
InitFare ==
    /\ \E f \in SeqsUpTo(FareCells, MaxTrain) :
          training_data = [i \in DOMAIN f |-> RawTrainRow(i, "female", Num(22), f[i])]
    /\ \E f \in SeqsUpTo(FareCells, MaxTest) :
          testing_data = [i \in DOMAIN f |-> RawTestRow(i, "male", Num(24), f[i])]
    /\ gender_submission = AllLabelled
    /\ CleanStart

\* the scenario Age = [22, NaN, 24], Fare = [7, 8, NaN], with a test file of the
\* same missing pattern
InitScenario ==
    /\ training_data = <<RawTrainRow(1, "male", Num(22), Num(7)),
                          RawTrainRow(2, "female", NaN, Num(8)),
                          RawTrainRow(3, "male", Num(24), NaN)>>
    /\ testing_data = <<RawTestRow(1, "male", Num(24), Num(8)),
                         RawTestRow(2, "female", NaN, Num(8)),
                         RawTestRow(3, "male", Num(24), NaN)>>
    /\ gender_submission = AllLabelled
    /\ CleanStart

\* files whose Sex column varies
InitSex ==
    /\ \E s \in SeqsUpTo(SexCells, MaxTrain) :
          training_data = [i \in DOMAIN s |-> RawTrainRow(i, s[i], Num(22), Num(7))]
    /\ \E s \in SeqsUpTo(SexCells, MaxTest) :
          testing_data = [i \in DOMAIN s |-> RawTestRow(i, s[i], Num(24), Num(8))]
    /\ gender_submission = AllLabelled
    /\ CleanStart

\* test and label files whose identifiers vary
InitJoin ==
    /\ training_data = <<RawTrainRow(1, "male", Num(22), NaN)>>
    /\ \E ids \in IdColumns :
          testing_data = [i \in DOMAIN ids |-> RawTestRow(ids[i], "male", NaN, Num(8))]
    /\ gender_submission \in LabelTables
    /\ CleanStart

InitClean ==
    /\ InitAge \/ InitFare \/ InitScenario \/ InitSex \/ InitJoin
    /\ IdleAcc /\ IdleSplit /\ IdleRank /\ IdleCV /\ IdleMain

----------------------------------------------------------------------------
(* Cleaner: main() *)

\* lines 29-31: read the three raw files
ReadRaw ==
    /\ pc = "start"
    /\ titanic_train' = training_data
    /\ titanic_test' = testing_data
    /\ pc' = "read"
    /\ UNCHANGED <<training_data, testing_data, gender_submission, values,
                   cleaned_train, cleaned_test>>
    /\ CleanOnly

\* lines 36-37: drop the columns of no interest
Project ==
    /\ pc = "read"
    /\ titanic_train' = ProjectTrain(titanic_train)
    /\ titanic_test' = ProjectTest(titanic_test)
    /\ pc' = "projected"
    /\ UNCHANGED <<training_data, testing_data, gender_submission, values,
                   cleaned_train, cleaned_test>>
    /\ CleanOnly

\* line 40: add the Survived column to the test data
JoinLabels ==
    /\ pc = "projected"
    /\ titanic_test' = Join(titanic_test, gender_submission)
    /\ pc' = "joined"
    /\ UNCHANGED <<training_data, testing_data, gender_submission, titanic_train,
                   values, cleaned_train, cleaned_test>>
    /\ CleanOnly

\* line 43: fillNAN([titanic_train, titanic_test]), in place
FillNAN ==
    /\ pc = "joined"
    /\ values' = calcNAN(titanic_train)
    /\ titanic_train' = fillNAN(<<titanic_train, titanic_test>>)[1]
    /\ titanic_test' = fillNAN(<<titanic_train, titanic_test>>)[2]
    /\ pc' = "filled"
    /\ UNCHANGED <<training_data, testing_data, gender_submission, cleaned_train,
                   cleaned_test>>
    /\ CleanOnly

\* line 44: process_sex([titanic_train, titanic_test])
ProcessSex ==
    /\ pc = "filled"
    /\ titanic_train' = process_sex(<<titanic_train, titanic_test>>)[1]
    /\ titanic_test' = process_sex(<<titanic_train, titanic_test>>)[2]
    /\ pc' = "cleaned"
    /\ UNCHANGED <<training_data, testing_data, gender_submission, values,
                   cleaned_train, cleaned_test>>
    /\ CleanOnly

\* line 48: titanic_train.to_csv(args.cleaned_train)
ExportTrain ==
    /\ pc = "cleaned"
    /\ cleaned_train' = File(titanic_train)
    /\ pc' = "train_exported"
    /\ UNCHANGED <<training_data, testing_data, gender_submission, titanic_train,
                   titanic_test, values, cleaned_test>>
    /\ CleanOnly

\* line 49: titanic_test.to_csv(args.cleaned_test)
ExportTest ==
    /\ pc = "train_exported"
    /\ cleaned_test' = File(titanic_test)
    /\ pc' = "done"
    /\ UNCHANGED <<training_data, testing_data, gender_submission, titanic_train,
                   titanic_test, values, cleaned_train>>
    /\ CleanOnly

NextClean ==
    \/ ReadRaw
    \/ Project
    \/ JoinLabels
    \/ FillNAN
    \/ ProcessSex
    \/ ExportTrain
    \/ ExportTest

SpecClean == InitClean /\ [][NextClean]_vars

----------------------------------------------------------------------------
(* Cleaner: properties *)

Filled == pc \in {"filled", "cleaned", "train_exported", "done"}
Recoded == pc \in {"cleaned", "train_exported", "done"}
Joined == pc \in {"joined", "filled", "cleaned", "train_exported", "done"}

Present(col) == {i \in DOMAIN col : col[i].d # 0}

RECURSIVE SumOver(_, _)
SumOver(col, I) ==
    IF I = {} THEN 0
    ELSE LET i == CHOOSE j \in I : TRUE IN col[i].n + SumOver(col, I \ {i})

\* m is the arithmetic mean of the non-missing cells of col (NaN when there is none)
IsMeanOf(m, col) ==
    IF Present(col) = {} THEN IsNaN(m)
    ELSE m.d > 0 /\ m.n * Cardinality(Present(col)) = SumOver(col, Present(col)) * m.d

\* x is the r-th smallest of the non-missing cells of col
IsKth(x, r, col) ==
    /\ \E i \in Present(col) : col[i].n = x
    /\ Cardinality({i \in Present(col) : col[i].n < x}) < r
    /\ r <= Cardinality({i \in Present(col) : col[i].n <= x})

\* m is the median of the non-missing cells of col (NaN when there is none)
IsMedianOf(m, col) ==
    LET k == Cardinality(Present(col))
    IN  IF k = 0 THEN IsNaN(m)
        ELSE IF k % 2 = 1
             THEN m.d = 1 /\ IsKth(m.n, (k + 1) \div 2, col)
             ELSE /\ m.d > 0
                  /\ \E i, j \in Present(col) :
                        /\ IsKth(col[i].n, k \div 2, col)
                        /\ IsKth(col[j].n, k \div 2 + 1, col)
                        /\ 2 * m.n = (col[i].n + col[j].n) * m.d

\* table now holds table raw with the missing Age and Fare cells set to v
FilledFrom(now, raw, v) ==
    /\ Len(now) = Len(raw)
    /\ \A i \in DOMAIN raw :
          /\ now[i].Age = (IF IsNaN(raw[i].Age) THEN v.Age ELSE raw[i].Age)
          /\ now[i].Fare = (IF IsNaN(raw[i].Fare) THEN v.Fare ELSE raw[i].Fare)

\* C2: once fillNAN has run, the Age fill value is the mean and the Fare fill value
\* the median of the non-missing values of the training file; every cell of Age and
\* Fare that was missing in the train or the test file holds that training
\* statistic, and every other cell of the two columns is as in the file.
C2_FillUsesTrainingStatistics ==
    Filled =>
        /\ IsMeanOf(values.Age, AgeColumn(training_data))
        /\ IsMedianOf(values.Fare, FareColumn(training_data))
        /\ FilledFrom(titanic_train, training_data, values)
        /\ FilledFrom(titanic_test, testing_data, values)

\* a test file with a missing Age and a missing Fare was filled with training
\* statistics that differ from the test file's own mean and median
C2_Witness ==
    /\ pc = "filled"
    /\ \E i \in DOMAIN testing_data :
          IsNaN(testing_data[i].Age) /\ titanic_test[i].Age = values.Age
    /\ \E i \in DOMAIN testing_data :
          IsNaN(testing_data[i].Fare) /\ titanic_test[i].Fare = values.Fare
    /\ ~IsNaN(values.Age) /\ ~IsNaN(values.Fare)
    /\ ~IsMeanOf(values.Age, AgeColumn(testing_data))
    /\ ~IsMedianOf(values.Fare, FareColumn(testing_data))
    /\ Present(AgeColumn(testing_data)) # {}
    /\ Present(FareColumn(testing_data)) # {}

\* C4: after fillNAN and process_sex every record of both cleaned tables has a
\* non-missing Age, a non-missing Fare and a numeric Sex (a number cell: 0, 1 or the
\* float NaN of a numeric column), whatever the input files.
C4_CleanedHasNoMissing ==
    Recoded =>
        \A df \in {titanic_train, titanic_test} : \A i \in DOMAIN df :
            /\ ~IsNaN(df[i].Age)
            /\ ~IsNaN(df[i].Fare)
            /\ df[i].Sex \in {Num(0), Num(1), NaN}

MaleCount(raw) == Cardinality({i \in DOMAIN raw : raw[i].Sex = "male"})
OnesCount(df) == Cardinality({i \in DOMAIN df : df[i].Sex = Num(1)})

RecodedFrom(now, raw) ==
    /\ Len(now) = Len(raw)
    /\ \A i \in DOMAIN raw :
          /\ raw[i].Sex = "male" => now[i].Sex = Num(1)
          /\ raw[i].Sex = "female" => now[i].Sex = Num(0)
    /\ OnesCount(now) = MaleCount(raw)

OnlyZeroOne(df) == \A i \in DOMAIN df : df[i].Sex \in {Num(0), Num(1)}

\* C5 (as stated): after process_sex the Sex column of both tables holds only 0 and
\* 1, male rows 1 and female rows 0 at the same position, as many 1s as males.
C5_SexOnlyZeroOne ==
    Recoded =>
        /\ RecodedFrom(titanic_train, training_data) /\ OnlyZeroOne(titanic_train)
        /\ RecodedFrom(titanic_test, testing_data) /\ OnlyZeroOne(titanic_test)

\* C5 (amended): after process_sex male rows are 1 and female rows 0 at the same
\* position, every other entry is missing (NaN), there are as many 1s as males,
\* and the column holds only 0 and 1 exactly when every entry was male or female.
C5_SexRecoded ==
    Recoded =>
        \A t \in {<<titanic_train, training_data>>, <<titanic_test, testing_data>>} :
            /\ RecodedFrom(t[1], t[2])
            /\ \A i \in DOMAIN t[2] :
                  t[2][i].Sex \notin {"male", "female"} => IsNaN(t[1][i].Sex)
            /\ OnlyZeroOne(t[1]) <=> (\A i \in DOMAIN t[2] : t[2][i].Sex \in {"male", "female"})

\* both values and an unmapped one were recoded
C5_Witness ==
    /\ pc = "cleaned"
    /\ \E i, j, k \in DOMAIN training_data :
          /\ training_data[i].Sex = "male" /\ titanic_train[i].Sex = Num(1)
          /\ training_data[j].Sex = "female" /\ titanic_train[j].Sex = Num(0)
          /\ training_data[k].Sex = "other" /\ IsNaN(titanic_train[k].Sex)
    /\ \E i, j \in DOMAIN testing_data :
          /\ testing_data[i].Sex = "male" /\ titanic_test[i].Sex = Num(1)
          /\ testing_data[j].Sex = "female" /\ titanic_test[j].Sex = Num(0)

\* C7: from the join on, the Survived of every test passenger is the label file's
\* value for the same identifier, and is missing when the label file lacks the
\* identifier; fillNAN leaves that missing target missing.
C7_SurvivedFromLabels ==
    Joined =>
        /\ Len(titanic_test) = Len(testing_data)
        /\ \A i \in DOMAIN testing_data :
              /\ titanic_test[i].id = testing_data[i].id
              /\ testing_data[i].id \in DOMAIN gender_submission =>
                    titanic_test[i].Survived = Num(gender_submission[testing_data[i].id])
              /\ testing_data[i].id \notin DOMAIN gender_submission =>
                    IsNaN(titanic_test[i].Survived)

\* fillNAN filled a test Age with a real value and left an unlabelled passenger's
\* Survived missing, next to a labelled passenger whose identifier is not its row
C7_Witness ==
    /\ pc = "filled"
    /\ ~IsNaN(values.Age)
    /\ \E i, j \in DOMAIN titanic_test :
          /\ IsNaN(titanic_test[i].Survived)
          /\ IsNaN(testing_data[i].Age) /\ titanic_test[i].Age = values.Age
          /\ titanic_test[j].id # j
          /\ titanic_test[j].Survived = Num(1)
          /\ j \in DOMAIN gender_submission /\ gender_submission[j] = 0

----------------------------------------------------------------------------
(* Trainer/Evaluator: get_accuracies *)

RECURSIVE SumSurvived(_)
SumSurvived(rows) ==
    IF rows = <<>> THEN 0 ELSE Head(rows).Survived + SumSurvived(Tail(rows))

Matches(r) == r.Survived = r.Prediction
Differs(r) == r.Survived # r.Prediction

\* df.Survived[df.Survived == df.Prediction].sum(): the SUM of the Survived values
\* of the rows the mask selects
correct_predictions(rows) == SumSurvived(SelectSeq(rows, Matches))
incorrect_predictions(rows) == SumSurvived(SelectSeq(rows, Differs))

\* correct_predictions / total: both are numpy integers (Series.sum() of an integer
\* column), whose division by zero does not raise: numpy warns and the quotient
\* 0/0 is nan. The dividend is 0 whenever the divisor is, the sums being of values
\* >= 0.
TrueDivide(a, b) ==
    [raised |-> FALSE, value |-> IF b = 0 THEN NaN ELSE Rat(a, b)]

\* round(x, 4): to the nearest multiple of 1/10000, a half to the even one; nan stays
Round4(x) ==
    IF IsNaN(x) THEN NaN
    ELSE LET q == (x.n * 10000) \div x.d
             r == (x.n * 10000) % x.d
             up == 2 * r > x.d \/ (2 * r = x.d /\ q % 2 = 1)
         IN  Rat(IF up THEN q + 1 ELSE q, 10000)

get_accuracies(rows, name) ==
    LET correct == correct_predictions(rows)
        incorrect == incorrect_predictions(rows)
        total == correct + incorrect
        quotient == TrueDivide(correct, total)
    IN  [called |-> TRUE, raised |-> quotient.raised, set |-> name, n_total |-> total,
         n_correct_pred |-> correct, n_incorrect_pred |-> incorrect,
         accuracy |-> Round4(quotient.value)]

\* predicted datasets: integer columns Survived and Prediction of 0s and 1s
PredictedRows == [Survived : {0, 1}, Prediction : {0, 1}]

InitAcc ==
    /\ pred_df \in SeqsUpTo(PredictedRows, MaxRows)
    /\ set_name \in {"train", "test"}
    /\ accuracy_row = [called |-> FALSE]
    /\ IdleClean /\ IdleSplit /\ IdleRank /\ IdleCV /\ IdleMain

\* lines 50-51: get_accuracies(train_prediction, "train"), (test_prediction, "test")
GetAccuracies ==
    /\ ~accuracy_row.called
    /\ accuracy_row' = get_accuracies(pred_df, set_name)
    /\ UNCHANGED <<pred_df, set_name>>
    /\ AccOnly

NextAcc == GetAccuracies

SpecAcc == InitAcc /\ [][NextAcc]_vars

CountRows(rows, same) ==
    Cardinality({i \in DOMAIN rows : (rows[i].Survived = rows[i].Prediction) = same})

\* C1: for a predicted dataset of N >= 1 rows get_accuracies returns n_correct = the
\* number of rows whose Prediction equals Survived, n_incorrect = the number of rows
\* where they differ, n_total = n_correct + n_incorrect = N, and accuracy =
\* n_correct / n_total rounded to 4 decimals.
C1_AccuracyCountsRows ==
    (accuracy_row.called /\ Len(pred_df) >= 1) =>
        /\ ~accuracy_row.raised
        /\ accuracy_row.n_correct_pred = CountRows(pred_df, TRUE)
        /\ accuracy_row.n_incorrect_pred = CountRows(pred_df, FALSE)
        /\ accuracy_row.n_total = Len(pred_df)
        /\ accuracy_row.n_total =
              accuracy_row.n_correct_pred + accuracy_row.n_incorrect_pred
        /\ accuracy_row.accuracy =
              Round4(Rat(CountRows(pred_df, TRUE), Len(pred_df)))

\* C8: when the total get_accuracies computes is 0, the call raises a division
\* fault and returns no row with a sentinel or not-a-number accuracy.
C8_ZeroTotalRaises ==
    (accuracy_row.called /\ accuracy_row.n_total = 0) => accuracy_row.raised

----------------------------------------------------------------------------
(* Trainer/Evaluator: split_data *)

FeatureNames == <<"Pclass", "Sex", "Age", "SibSp", "Parch", "Fare">>

ColumnIndex(columns, name) == CHOOSE i \in DOMAIN columns : columns[i] = name

\* data.iloc[:, 0:-1]: every row, the columns before the last one
iloc_all(t) == t

iloc_but_last(t) ==
    LET m == Len(t.columns)
    IN  [columns |-> SubSeq(t.columns, 1, m - 1),
         rows |-> [i \in DOMAIN t.rows |-> SubSeq(t.rows[i], 1, m - 1)]]

\* data.Survived: the column of that name
column_named(t, name) ==
    [i \in DOMAIN t.rows |-> t.rows[i][ColumnIndex(t.columns, name)]]

split_data(t) ==
    [called |-> TRUE, X |-> iloc_but_last(t), y |-> column_named(t, "Survived")]

ColumnPool == {FeatureNames[i] : i \in 1..(MaxCols - 1)} \cup {"Survived"}

\* column headers: distinct names, Survived among them, in any order
Headers ==
    {h \in SeqsUpTo(ColumnPool, MaxCols) :
        /\ \E i \in DOMAIN h : h[i] = "Survived"
        /\ \A i, j \in DOMAIN h : i # j => h[i] # h[j]}

InitSplit ==
    /\ \E h \in Headers : \E n \in 0..MaxSplitRows :
          \E r \in [1..n -> [1..Len(h) -> {0, 1}]] :
              data = [columns |-> h, rows |-> r]
    /\ split = [called |-> FALSE]
    /\ IdleClean /\ IdleAcc /\ IdleRank /\ IdleCV /\ IdleMain

\* lines 35-36: split_data(titanic_train), split_data(titanic_test)
SplitData ==
    /\ ~split.called
    /\ split' = split_data(data)
    /\ UNCHANGED data
    /\ SplitOnly

NextSplit == SplitData

SpecSplit == InitSplit /\ [][NextSplit]_vars

\* C9: for a table of N rows and M columns with a Survived column, split_data
\* returns a feature table of N rows holding exactly the first M-1 columns, and a
\* target of length N holding the Survived values row for row; when Survived is
\* the last column the feature table does not contain it.
C9_SplitShape ==
    split.called =>
        LET m == Len(data.columns)
            n == Len(data.rows)
            s == CHOOSE c \in 1..m : data.columns[c] = "Survived"
        IN  /\ Len(split.X.rows) = n
            /\ Len(split.X.columns) = m - 1
            /\ \A c \in 1..(m - 1) : split.X.columns[c] = data.columns[c]
            /\ \A i \in 1..n :
                  /\ Len(split.X.rows[i]) = m - 1
                  /\ \A c \in 1..(m - 1) : split.X.rows[i][c] = data.rows[i][c]
            /\ Len(split.y) = n
            /\ \A i \in 1..n : split.y[i] = data.rows[i][s]
            /\ data.columns[m] = "Survived" =>
                  \A c \in DOMAIN split.X.columns : split.X.columns[c] # "Survived"

\* a table of two rows and three columns, Survived not last and unlike the last
\* column in some row, was split
C9_Witness ==
    /\ split.called
    /\ Len(data.columns) = 3 /\ Len(data.rows) = 2
    /\ data.columns[3] # "Survived"
    /\ \E i \in DOMAIN data.rows : split.y[i] # data.rows[i][3]

----------------------------------------------------------------------------
(* Trainer/Evaluator: feature_rank *)

Reverse(s) == [i \in 1..Len(s) |-> s[Len(s) + 1 - i]]

IndexOrders(n) == {p \in [1..n -> 1..n] : \A i, j \in 1..n : i # j => p[i] # p[j]}

\* importances.argsort(): indices that put the scores in ascending order. The
\* default sort kind promises no order among equal scores, so every ascending
\* order is an outcome.
Argsort(imp) ==
    {p \in IndexOrders(Len(imp)) :
        \A i \in 1..(Len(imp) - 1) : imp[p[i]] <= imp[p[i + 1]]}

\* importances.argsort()[::-1]
descending_keep(p) == p

descending(p) == Reverse(p)

\* the row written at feature_rank_df.loc[k - 1]
rank_row(k, feats, idx, imp) ==
    [Rank |-> k, Feature |-> feats[idx[k]], Importance |-> imp[idx[k]]]

\* the scenario importances [0.1, 0.5, 0.4, 0, 0, 0] of six features, in tenths
ScenarioImportances == <<1, 5, 4, 0, 0, 0>>

InitRank ==
    /\ \/ \E n \in 0..MaxFeatures :
             /\ features = SubSeq(FeatureNames, 1, n)
             /\ importances \in [1..n -> 0..MaxImp]
       \/ /\ features = FeatureNames
          /\ importances = ScenarioImportances
    /\ importance_indices = <<>>
    /\ feature_rank_df = <<>>
    /\ rank_pc = "start"
    /\ IdleClean /\ IdleAcc /\ IdleSplit /\ IdleCV /\ IdleMain

\* lines 139-142: read the importances, sort their indices, make the empty frame
SortIndices ==
    /\ rank_pc = "start"
    /\ \E p \in Argsort(importances) : importance_indices' = descending(p)
    /\ rank_pc' = "loop"
    /\ UNCHANGED <<features, importances, feature_rank_df>>
    /\ RankOnly

\* lines 144-145: one turn of the loop over range(len(features))
RankRow ==
    /\ rank_pc = "loop"
    /\ Len(feature_rank_df) < Len(features)
    /\ feature_rank_df' =
          Append(feature_rank_df,
                 rank_row(Len(feature_rank_df) + 1, features, importance_indices,
                          importances))
    /\ UNCHANGED <<features, importances, importance_indices, rank_pc>>
    /\ RankOnly

\* line 147: return(feature_rank_df)
RankReturn ==
    /\ rank_pc = "loop"
    /\ Len(feature_rank_df) = Len(features)
    /\ rank_pc' = "done"
    /\ UNCHANGED <<features, importances, importance_indices, feature_rank_df>>
    /\ RankOnly

NextRank == SortIndices \/ RankRow \/ RankReturn

SpecRank == InitRank /\ [][NextRank]_vars

Listed(f) == CHOOSE i \in DOMAIN features : features[i] = f

\* N rows, ranks 1..N, every feature once with its own importance, importances
\* non-increasing
RankedDescending ==
    /\ Len(feature_rank_df) = Len(features)
    /\ \A k \in DOMAIN feature_rank_df : feature_rank_df[k].Rank = k
    /\ \A i \in DOMAIN features :
          Cardinality({k \in DOMAIN feature_rank_df :
                          feature_rank_df[k].Feature = features[i]}) = 1
    /\ \A k \in DOMAIN feature_rank_df :
          feature_rank_df[k].Importance = importances[Listed(feature_rank_df[k].Feature)]
    /\ \A k \in 1..(Len(feature_rank_df) - 1) :
          feature_rank_df[k].Importance >= feature_rank_df[k + 1].Importance

\* features of equal importance appear in the order they were listed
TiesInListedOrder ==
    \A j, k \in DOMAIN feature_rank_df :
        (j < k /\ feature_rank_df[j].Importance = feature_rank_df[k].Importance)
            => Listed(feature_rank_df[j].Feature) < Listed(feature_rank_df[k].Feature)

\* C3 (as stated): feature_rank returns N rows with ranks 1..N, each feature once,
\* importances non-increasing, and features of equal importance in listed order.
C3_RankStable ==
    rank_pc = "done" => (RankedDescending /\ TiesInListedOrder)

\* C3 (amended): feature_rank returns N rows with ranks 1..N, each feature once
\* with its importance, importances non-increasing; the order among features of
\* equal importance is not the listed one in general.
C3_RankDescending ==
    rank_pc = "done" => RankedDescending

\* the scenario was ranked: rank 1 Sex (0.5), rank 2 Age (0.4), rank 3 Pclass (0.1),
\* and the three features of importance 0 came out in the reverse of listed order
C3_Witness ==
    /\ rank_pc = "done"
    /\ importances = ScenarioImportances
    /\ feature_rank_df[1].Feature = "Sex"
    /\ feature_rank_df[2].Feature = "Age"
    /\ feature_rank_df[3].Feature = "Pclass"
    /\ feature_rank_df[4].Feature = "Fare"
    /\ feature_rank_df[5].Feature = "Parch"
    /\ feature_rank_df[6].Feature = "SibSp"

----------------------------------------------------------------------------
(* Trainer/Evaluator: cross_validate *)

\* max_depths = range(1, 50)
DepthStart == 1
DepthStop == 50
NumDepths == DepthStop - DepthStart

\* max_depths[k - 1]
max_depths(k) == DepthStart + (k - 1)

\* np.argmax: the (1-based) index of the first occurrence of the maximum
RECURSIVE ScanMaxLast(_, _, _)
ScanMaxLast(s, i, best) ==
    IF i > Len(s) THEN best
    ELSE ScanMaxLast(s, i + 1, IF s[i] >= s[best] THEN i ELSE best)

RECURSIVE ScanMax(_, _, _)
ScanMax(s, i, best) ==
    IF i > Len(s) THEN best
    ELSE ScanMax(s, i + 1, IF s[i] > s[best] THEN i ELSE best)

argmax_last(s) == ScanMaxLast(s, 2, 1)

argmax(s) == ScanMax(s, 2, 1)

\* the mean cross-validated accuracy of every depth: level everywhere but at up to
\* two depths
ScoreTables ==
    {[d \in 1..NumDepths |-> IF d = p THEN v ELSE IF d = q THEN w ELSE b] :
        p \in 1..NumDepths, q \in 1..NumDepths, v \in 0..MaxScore, w \in 0..MaxScore,
        b \in 0..1}

InitCV ==
    /\ cv_scores \in ScoreTables
    /\ fitted = <<>>
    /\ accuracies = <<>>
    /\ best_depth = 0
    /\ IdleClean /\ IdleAcc /\ IdleSplit /\ IdleRank /\ IdleMain

\* lines 84-87: one turn of the loop, a fresh tree of the next depth scored
CrossValStep ==
    /\ best_depth = 0
    /\ Len(fitted) < NumDepths
    /\ LET depth == max_depths(Len(fitted) + 1)
       IN  /\ fitted' = Append(fitted, depth)
           /\ accuracies' = Append(accuracies, cv_scores[depth])
    /\ UNCHANGED <<cv_scores, best_depth>>
    /\ CVOnly

\* lines 89-90: best_depth = max_depths[np.argmax(accuracies)]
CrossValReturn ==
    /\ best_depth = 0
    /\ Len(fitted) = NumDepths
    /\ best_depth' = max_depths(argmax(accuracies))
    /\ UNCHANGED <<cv_scores, fitted, accuracies>>
    /\ CVOnly

NextCV == CrossValStep \/ CrossValReturn

SpecCV == InitCV /\ [][NextCV]_vars

\* C6: cross_validate evaluates every depth 1..49 once, in increasing order, with
\* no early stop, and returns a depth in 1..49 whose mean accuracy is >= that of
\* every other depth, the lowest of the depths that share the maximum.
C6_BestDepth ==
    /\ \A k \in DOMAIN fitted : fitted[k] = k
    /\ Len(fitted) <= 49
    /\ best_depth # 0 =>
          /\ Len(fitted) = 49
          /\ best_depth \in 1..49
          /\ \A d \in 1..49 : cv_scores[best_depth] >= cv_scores[d]
          /\ \A d \in 1..(best_depth - 1) : cv_scores[d] < cv_scores[best_depth]

\* a depth was returned that shares the maximum with a higher depth and is
\* neither the first nor the last candidate
C6_Witness ==
    /\ best_depth \in 2..48
    /\ \E d \in (best_depth + 1)..49 : cv_scores[d] = cv_scores[best_depth]
    /\ \E d \in 1..49 : cv_scores[d] < cv_scores[best_depth]

----------------------------------------------------------------------------
(* The two main() functions: the order of their steps, and what aborts them *)

\* 01_data_clean.py, main(): lines 29-49 in order
CleanSteps ==
    <<"read", "project_train", "project_test", "join", "fillNAN", "process_sex",
      "write_train", "write_test">>

\* data_analysis.py, main(): lines 31-62 in order
AnalysisSteps ==
    <<"read", "split_train", "split_test", "cross_validate", "fit", "predict_train",
      "predict_test", "accuracies", "feature_rank", "write_model",
      "write_train_prediction", "write_test_prediction", "write_accuracies",
      "write_feature_ranks">>

AnalysisSteps_model_saved_after_fit ==
    <<"read", "split_train", "split_test", "cross_validate", "fit", "write_model",
      "predict_train", "predict_test", "accuracies", "feature_rank",
      "write_train_prediction", "write_test_prediction", "write_accuracies",
      "write_feature_ranks">>

Steps_early_save(s) ==
    IF s = "clean" THEN CleanSteps ELSE AnalysisSteps_model_saved_after_fit

Steps(s) == IF s = "clean" THEN CleanSteps ELSE AnalysisSteps

\* the file a writing step writes
OutputOf(step) ==
    CASE step = "write_train" -> "cleaned_train"
      [] step = "write_test" -> "cleaned_test"
      [] step = "write_model" -> "classification_tree_model.sav"
      [] step = "write_train_prediction" -> "train_prediction.csv"
      [] step = "write_test_prediction" -> "test_prediction.csv"
      [] step = "write_accuracies" -> "classification_accuracies.csv"
      [] step = "write_feature_ranks" -> "feature_ranks.csv"
      [] OTHER -> "none"

IsWrite(step) == OutputOf(step) # "none"

Step == Steps(script)[ip]
Running == status = "running" /\ ip \in DOMAIN Steps(script)

TrainColumns == FeatureNames \o <<"Survived">>

Has(cols, name) == \E i \in DOMAIN cols : cols[i] = name
HasAll(cols, names) == \A i \in DOMAIN names : Has(cols, names[i])
HasSome(cols, names) == \E i \in DOMAIN names : Has(cols, names[i])

\* a header with one column left out
Without(cols, k) == SubSeq(cols, 1, k - 1) \o SubSeq(cols, k + 1, Len(cols))
Headings(cols) == {cols} \cup {Without(cols, k) : k \in DOMAIN cols}

ButLast(cols) == SubSeq(cols, 1, Len(cols) - 1)

InitMain ==
    /\ script \in {"clean", "analysis"}
    /\ ip = 1
    /\ status = "running"
    /\ cause = "none"
    /\ outputs = {}
    /\ strict \in BOOLEAN
    /\ cols_train \in Headings(<<"Name">> \o TrainColumns)
    /\ IF script = "clean"
          THEN /\ cols_test \in Headings(<<"Name">> \o FeatureNames)
               /\ cols_labels \in {<<"Survived">>, <<>>}
          ELSE /\ cols_test \in Headings(<<"Name">> \o TrainColumns)
               /\ cols_labels = <<>>
    /\ IdleClean /\ IdleAcc /\ IdleSplit /\ IdleRank /\ IdleCV

Advance ==
    /\ ip' = ip + 1
    /\ status' = IF ip = Len(Steps(script)) THEN "finished" ELSE "running"
    /\ cause' = cause

Abort(why) ==
    /\ status' = "aborted"
    /\ cause' = why
    /\ ip' = ip

Fixed == UNCHANGED <<script, strict>> /\ MainOnly

\* pd.read_csv of the input files
ReadInputs ==
    /\ Running /\ Step = "read"
    /\ Advance
    /\ UNCHANGED <<cols_train, cols_test, cols_labels, outputs>>
    /\ Fixed

\* .loc[:, listed]: a listed column the table lacks is a KeyError where the library
\* rejects missing labels (and everywhere when no listed column is there);
\* otherwise the column comes out empty
LocColumns(cols, listed) ==
    IF HasAll(cols, listed) \/ (~strict /\ HasSome(cols, listed))
    THEN [ok |-> TRUE, cols |-> listed]
    ELSE [ok |-> FALSE, cols |-> cols]

\* 01_data_clean.py line 36
StepProjectTrain ==
    /\ Running /\ Step = "project_train"
    /\ LET r == LocColumns(cols_train, TrainColumns)
       IN  IF r.ok THEN Advance /\ cols_train' = r.cols
           ELSE Abort("column") /\ cols_train' = cols_train
    /\ UNCHANGED <<cols_test, cols_labels, outputs>>
    /\ Fixed

\* 01_data_clean.py line 37
StepProjectTest ==
    /\ Running /\ Step = "project_test"
    /\ LET r == LocColumns(cols_test, FeatureNames)
       IN  IF r.ok THEN Advance /\ cols_test' = r.cols
           ELSE Abort("column") /\ cols_test' = cols_test
    /\ UNCHANGED <<cols_train, cols_labels, outputs>>
    /\ Fixed

\* 01_data_clean.py line 40: the label file's columns are appended
StepJoin ==
    /\ Running /\ Step = "join"
    /\ cols_test' = cols_test \o cols_labels
    /\ Advance
    /\ UNCHANGED <<cols_train, cols_labels, outputs>>
    /\ Fixed

\* steps that read only columns the table is sure to have by then, or none by name:
\* 01_data_clean.py lines 43-44, data_analysis.py lines 39-45 and 49-55
StepTransform ==
    /\ Running
    /\ Step \in {"fillNAN", "process_sex", "cross_validate", "fit", "predict_train",
                  "accuracies", "feature_rank"}
    /\ Advance
    /\ UNCHANGED <<cols_train, cols_test, cols_labels, outputs>>
    /\ Fixed

\* data_analysis.py lines 35-36: data.Survived is an AttributeError without the column
StepSplit ==
    /\ Running /\ Step \in {"split_train", "split_test"}
    /\ LET cols == IF Step = "split_train" THEN cols_train ELSE cols_test
       IN  IF Has(cols, "Survived") THEN Advance ELSE Abort("column")
    /\ UNCHANGED <<cols_train, cols_test, cols_labels, outputs>>
    /\ Fixed

\* data_analysis.py line 46: the tree was fit on Xtrain's columns; a test feature
\* table with another number of columns is a ValueError, one with other names is
\* one where the library checks the names
StepPredictTest ==
    /\ Running /\ Step = "predict_test"
    /\ LET Xtrain == ButLast(cols_train)
           Xtest == ButLast(cols_test)
       IN  IF Len(Xtest) # Len(Xtrain) \/ (strict /\ Xtest # Xtrain)
           THEN Abort("column") ELSE Advance
    /\ UNCHANGED <<cols_train, cols_test, cols_labels, outputs>>
    /\ Fixed

\* to_csv / pickle.dump: the file is written
StepWrite ==
    /\ Running /\ IsWrite(Step)
    /\ outputs' = outputs \cup {OutputOf(Step)}
    /\ Advance
    /\ UNCHANGED <<cols_train, cols_test, cols_labels>>
    /\ Fixed

\* an input or output operation fails: the run aborts where it is
IoFault ==
    /\ Running /\ (Step = "read" \/ IsWrite(Step))
    /\ Abort("io")
    /\ UNCHANGED <<cols_train, cols_test, cols_labels, outputs>>
    /\ Fixed

NextMain ==
    \/ ReadInputs
    \/ StepProjectTrain
    \/ StepProjectTest
    \/ StepJoin
    \/ StepTransform
    \/ StepSplit
    \/ StepPredictTest
    \/ StepWrite
    \/ IoFault

SpecMain == InitMain /\ [][NextMain]_vars

\* C10: in both pipelines an output file is written only after every transformation
\* step has completed, so a run that aborts on a missing required column has
\* written no output file.
C10_NoOutputBeforeTransforms ==
    /\ outputs # {} =>
          \A k \in DOMAIN Steps(script) : ~IsWrite(Steps(script)[k]) => k < ip
    /\ (status = "aborted" /\ cause = "column") => outputs = {}

\* the analysis aborted at its last transformation that can miss a column, the
\* prediction on a test table lacking a feature column, with nothing written
C10_Witness ==
    /\ script = "analysis"
    /\ status = "aborted" /\ cause = "column"
    /\ Step = "predict_test"
    /\ ~Has(cols_test, "Fare") /\ Has(cols_train, "Fare")
    /\ outputs = {}

====
